---------------------------- MODULE Spec2Model ----------------------------
(***************************************************************************)
(* A model of passlib's src/des.c: the table-driven, encryption-only DES  *)
(* engine with the crypt(3) salt and repeat count.                         *)
(*                                                                         *)
(* A uint32_t is modelled as the set of its set bit positions (0 is the    *)
(* least significant bit, 31 the most significant): TLC's integers are     *)
(* signed 32-bit and cannot hold 0x80000000.  Bitwise AND, OR and XOR are  *)
(* intersection, union and symmetric difference; a shift moves the         *)
(* positions and drops those that leave the 32-bit word.  uint8_t values,  *)
(* loop counters and table indices are integers.                           *)
(***************************************************************************)
EXTENDS Integers, Sequences, FiniteSets, TLC

VARIABLES
    des_initialised,  \* the one-time-init flag (des.c line 201)
    tables,           \* the derived tables (des.c lines 101-209)
    frame,            \* the active des_cipher_block call: arguments, locals, position
    outbuf,           \* the caller's 8-byte output buffer
    hist,             \* what the model records about the active call
    threads           \* the threads that run des_init_tables concurrently

(***************************************************************************)
(* Bounds of the model.                                                    *)
(***************************************************************************)
\* The largest repeat count a modelled call passes (counts run from -1).
MaxCount == 2
\* Threads that run des_init_tables concurrently.
NumThreads == 2
\* The OR-mask loops of the concurrent model run k < GenK and i < GenI.
GenK == 1
GenI == 4

(***************************************************************************)
(* 32-bit words as sets of bit positions.                                  *)
(***************************************************************************)
\* The word of a non-negative integer below 2^31.
Word(n) == {b \in 0..30 : (n \div (2^b)) % 2 = 1}
\* The word of a uint8_t, or of a loop index below 256.
Word8(n) == {b \in 0..7 : (n \div (2^b)) % 2 = 1}

\* The integer of a word below 2^31 (every use is a table index or a byte).
Val(w) ==
    LET s(b) == IF b \in w THEN 2^b ELSE 0
    IN s(0) + s(1) + s(2) + s(3) + s(4) + s(5) + s(6) + s(7)
       + s(8) + s(9) + s(10) + s(11) + s(12) + s(13) + s(14) + s(15)
       + s(16) + s(17) + s(18) + s(19) + s(20) + s(21) + s(22) + s(23)
       + s(24) + s(25) + s(26) + s(27) + s(28) + s(29) + s(30)

And(a, b) == a \cap b
Or(a, b) == a \cup b
Xor(a, b) == (a \ b) \cup (b \ a)
Shl(w, n) == {b + n : b \in {c \in w : c + n < 32}}
Shr(w, n) == {b - n : b \in {c \in w : c >= n}}
\* A 32-bit constant written as its two 16-bit halves, 0xHHHHLLLL.
W32(hi, lo) == Or(Shl(Word(hi), 16), Word(lo))
\* (uint32_t) of a C long within TLC's integer range: two's complement.
WordOfLong(n) == {b \in 0..30 : (n \div (2^b)) % 2 = 1} \cup (IF n < 0 THEN {31} ELSE {})

\* The same operators on small non-negative C ints.
AndI(a, b) == Val(And(Word(a), Word(b)))
OrI(a, b) == Val(Or(Word(a), Word(b)))
\* (uint8_t)(a | b)
OrI8(a, b) == Val(Or(Word8(a), Word8(b)))
\* i & m as a truth value, for i and m below 256.
Test8(i, m) == And(Word8(i), Word8(m)) # {}
ShlI(a, n) == a * (2^n)
ShrI(a, n) == a \div (2^n)

\* A C array literal, indexed from 0.
Arr(t) == [i \in 0..(Len(t) - 1) |-> t[i + 1]]
\* Array reads that stay defined for an index outside the array (a word table
\* yields the empty word, a byte table 0); whether an index is in range is
\* recorded separately, see InRange.
AtW(t, i) == IF i \in DOMAIN t THEN t[i] ELSE {}
AtB(t, i) == IF i \in DOMAIN t THEN t[i] ELSE 0
InRange(t, i) == i \in DOMAIN t
OrAll(S) == UNION S

(***************************************************************************)
(* Static DES tables (des.c lines 94-195).                                 *)
(***************************************************************************)
IP == Arr(<<
    58, 50, 42, 34, 26, 18, 10,  2, 60, 52, 44, 36, 28, 20, 12,  4,
    62, 54, 46, 38, 30, 22, 14,  6, 64, 56, 48, 40, 32, 24, 16,  8,
    57, 49, 41, 33, 25, 17,  9,  1, 59, 51, 43, 35, 27, 19, 11,  3,
    61, 53, 45, 37, 29, 21, 13,  5, 63, 55, 47, 39, 31, 23, 15,  7 >>)

key_perm == Arr(<<
    57, 49, 41, 33, 25, 17,  9,  1, 58, 50, 42, 34, 26, 18,
    10,  2, 59, 51, 43, 35, 27, 19, 11,  3, 60, 52, 44, 36,
    63, 55, 47, 39, 31, 23, 15,  7, 62, 54, 46, 38, 30, 22,
    14,  6, 61, 53, 45, 37, 29, 21, 13,  5, 28, 20, 12,  4 >>)

key_shifts == Arr(<<
     1,  1,  2,  2,  2,  2,  2,  2,  1,  2,  2,  2,  2,  2,  2,  1 >>)

comp_perm == Arr(<<
    14, 17, 11, 24,  1,  5,  3, 28, 15,  6, 21, 10,
    23, 19, 12,  4, 26,  8, 16,  7, 27, 20, 13,  2,
    41, 52, 31, 37, 47, 55, 30, 40, 51, 45, 33, 48,
    44, 49, 39, 56, 34, 53, 46, 42, 50, 36, 29, 32 >>)

sbox == Arr(<<
    Arr(<<
      14,  4, 13,  1,  2, 15, 11,  8,  3, 10,  6, 12,  5,  9,  0,  7,
       0, 15,  7,  4, 14,  2, 13,  1, 10,  6, 12, 11,  9,  5,  3,  8,
       4,  1, 14,  8, 13,  6,  2, 11, 15, 12,  9,  7,  3, 10,  5,  0,
      15, 12,  8,  2,  4,  9,  1,  7,  5, 11,  3, 14, 10,  0,  6, 13 >>),
    Arr(<<
      15,  1,  8, 14,  6, 11,  3,  4,  9,  7,  2, 13, 12,  0,  5, 10,
       3, 13,  4,  7, 15,  2,  8, 14, 12,  0,  1, 10,  6,  9, 11,  5,
       0, 14,  7, 11, 10,  4, 13,  1,  5,  8, 12,  6,  9,  3,  2, 15,
      13,  8, 10,  1,  3, 15,  4,  2, 11,  6,  7, 12,  0,  5, 14,  9 >>),
    Arr(<<
      10,  0,  9, 14,  6,  3, 15,  5,  1, 13, 12,  7, 11,  4,  2,  8,
      13,  7,  0,  9,  3,  4,  6, 10,  2,  8,  5, 14, 12, 11, 15,  1,
      13,  6,  4,  9,  8, 15,  3,  0, 11,  1,  2, 12,  5, 10, 14,  7,
       1, 10, 13,  0,  6,  9,  8,  7,  4, 15, 14,  3, 11,  5,  2, 12 >>),
    Arr(<<
       7, 13, 14,  3,  0,  6,  9, 10,  1,  2,  8,  5, 11, 12,  4, 15,
      13,  8, 11,  5,  6, 15,  0,  3,  4,  7,  2, 12,  1, 10, 14,  9,
      10,  6,  9,  0, 12, 11,  7, 13, 15,  1,  3, 14,  5,  2,  8,  4,
       3, 15,  0,  6, 10,  1, 13,  8,  9,  4,  5, 11, 12,  7,  2, 14 >>),
    Arr(<<
       2, 12,  4,  1,  7, 10, 11,  6,  8,  5,  3, 15, 13,  0, 14,  9,
      14, 11,  2, 12,  4,  7, 13,  1,  5,  0, 15, 10,  3,  9,  8,  6,
       4,  2,  1, 11, 10, 13,  7,  8, 15,  9, 12,  5,  6,  3,  0, 14,
      11,  8, 12,  7,  1, 14,  2, 13,  6, 15,  0,  9, 10,  4,  5,  3 >>),
    Arr(<<
      12,  1, 10, 15,  9,  2,  6,  8,  0, 13,  3,  4, 14,  7,  5, 11,
      10, 15,  4,  2,  7, 12,  9,  5,  6,  1, 13, 14,  0, 11,  3,  8,
       9, 14, 15,  5,  2,  8, 12,  3,  7,  0,  4, 10,  1, 13, 11,  6,
       4,  3,  2, 12,  9,  5, 15, 10, 11, 14,  1,  7,  6,  0,  8, 13 >>),
    Arr(<<
       4, 11,  2, 14, 15,  0,  8, 13,  3, 12,  9,  7,  5, 10,  6,  1,
      13,  0, 11,  7,  4,  9,  1, 10, 14,  3,  5, 12,  2, 15,  8,  6,
       1,  4, 11, 13, 12,  3,  7, 14, 10, 15,  6,  8,  0,  5,  9,  2,
       6, 11, 13,  8,  1,  4, 10,  7,  9,  5,  0, 15, 14,  2,  3, 12 >>),
    Arr(<<
      13,  2,  8,  4,  6, 15, 11,  1, 10,  9,  3, 14,  5,  0, 12,  7,
       1, 15, 13,  8, 10,  3,  7,  4, 12,  5,  6, 11,  0, 14,  9,  2,
       7, 11,  4,  1,  9, 12, 14,  2,  0,  6, 10, 13, 15,  3,  5,  8,
       2,  1, 14,  7,  4, 10,  8, 13, 15, 12,  9,  0,  3,  5,  6, 11 >>) >>)

pbox == Arr(<<
    16,  7, 20, 21, 29, 12, 28, 17,  1, 15, 23, 26,  5, 18, 31, 10,
     2,  8, 24, 14, 32, 27,  3,  9, 19, 13, 30,  6, 22, 11,  4, 25 >>)

bits32 == [i \in 0..31 |-> {31 - i}]

bits8 == Arr(<< \h80, \h40, \h20, \h10, \h08, \h04, \h02, \h01 >>)

\* bits28 = bits32 + 4 and bits24 = bits28 + 4: the same array read at an offset.
bits28 == [i \in 0..27 |-> bits32[i + 4]]
bits24 == [i \in 0..23 |-> bits32[i + 8]]

(***************************************************************************)
(* des_init_tables (des.c lines 216-343): each derived table as the loops  *)
(* leave it when one invocation runs alone from zero-initialised storage.  *)
(***************************************************************************)
\* A loop `for (i = 0; i < n; i++) a[idx[i]] = val[i]` over array `base`:
\* each cell keeps its last write.
Scatter(base, n, idx, val) ==
    [p \in DOMAIN base |->
        LET hits == {i \in 0..(n - 1) : idx[i] = p}
        IN IF hits = {} THEN base[p]
           ELSE val[CHOOSE i \in hits : \A h \in hits : h <= i]]

SboxIndex(j) == OrI(OrI(AndI(j, \h20), ShlI(AndI(j, 1), 4)), AndI(ShrI(j, 1), \hF))

Gen_u_sbox == [i \in 0..7 |-> [j \in 0..63 |-> AtB(sbox[i], SboxIndex(j))]]

\* m_sbox[b][(i << 6) | j] for i, j < 64: cell x is written once, with i = x / 64
\* and j = x % 64; the stored value is cut to a uint8_t.
Gen_m_sbox ==
    [b \in 0..3 |-> [x \in 0..4095 |->
        OrI8(ShlI(Gen_u_sbox[ShlI(b, 1)][x \div 64], 4),
             Gen_u_sbox[ShlI(b, 1) + 1][x % 64])]]

Gen_final_perm == [i \in 0..63 |-> IP[i] - 1]

Gen_init_perm ==
    LET idx == [i \in 0..63 |-> IP[i] - 1]
        val == [i \in 0..63 |-> i]
    IN Scatter([p \in 0..63 |-> 0], 64, idx, val)

Gen_inv_key_perm ==
    LET idx == [i \in 0..55 |-> key_perm[i] - 1]
        val == [i \in 0..55 |-> i]
    IN Scatter([p \in 0..63 |-> 255], 56, idx, val)

Gen_inv_comp_perm ==
    LET idx == [i \in 0..47 |-> comp_perm[i] - 1]
        val == [i \in 0..47 |-> i]
    IN Scatter([p \in 0..55 |-> 255], 48, idx, val)

Gen_un_pbox ==
    LET idx == [i \in 0..31 |-> pbox[i] - 1]
        val == [i \in 0..31 |-> i]
    IN Scatter([p \in 0..31 |-> 0], 32, idx, val)

\* One pass of an OR loop `for (j = 0; j < n; j++) if (sel[j]) *p |= bit[j]` over a
\* cell just set to 0.
OrLoop(n, sel, bit) == OrAll({IF sel[j] THEN bit[j] ELSE {} : j \in 0..(n - 1)})

\* What input bit j of byte k contributes to the left and to the right mask of the
\* initial or final permutation, read through the permutation table perm.
PermBitL(perm, k, j) ==
    LET obit == AtB(perm, 8 * k + j)
    IN IF obit < 32 THEN AtW(bits32, obit) ELSE {}
PermBitR(perm, k, j) ==
    LET obit == AtB(perm, 8 * k + j)
    IN IF obit < 32 THEN {} ELSE AtW(bits32, obit - 32)

\* The same for the key permutation (28-bit halves); the sentinel 255 is skipped.
KeyBitL(perm, k, j) ==
    LET obit == AtB(perm, 8 * k + j)
    IN IF obit = 255 THEN {} ELSE IF obit < 28 THEN AtW(bits28, obit) ELSE {}
KeyBitR(perm, k, j) ==
    LET obit == AtB(perm, 8 * k + j)
    IN IF obit = 255 THEN {} ELSE IF obit < 28 THEN {} ELSE AtW(bits28, obit - 28)

\* And for the compression permutation (24-bit halves, 7 input bits per k).
CompBitL(perm, k, j) ==
    LET obit == AtB(perm, 7 * k + j)
    IN IF obit = 255 THEN {} ELSE IF obit < 24 THEN AtW(bits24, obit) ELSE {}
CompBitR(perm, k, j) ==
    LET obit == AtB(perm, 7 * k + j)
    IN IF obit = 255 THEN {} ELSE IF obit < 24 THEN {} ELSE AtW(bits24, obit - 24)

Gen_ip_maskl ==
    [k \in 0..7 |-> [i \in 0..255 |->
        LET sel == [j \in 0..7 |-> Test8(i, bits8[j])]
            bit == [j \in 0..7 |-> PermBitL(Gen_init_perm, k, j)]
        IN OrLoop(8, sel, bit)]]
Gen_ip_maskr ==
    [k \in 0..7 |-> [i \in 0..255 |->
        LET sel == [j \in 0..7 |-> Test8(i, bits8[j])]
            bit == [j \in 0..7 |-> PermBitR(Gen_init_perm, k, j)]
        IN OrLoop(8, sel, bit)]]
Gen_fp_maskl ==
    [k \in 0..7 |-> [i \in 0..255 |->
        LET sel == [j \in 0..7 |-> Test8(i, bits8[j])]
            bit == [j \in 0..7 |-> PermBitL(Gen_final_perm, k, j)]
        IN OrLoop(8, sel, bit)]]
Gen_fp_maskr ==
    [k \in 0..7 |-> [i \in 0..255 |->
        LET sel == [j \in 0..7 |-> Test8(i, bits8[j])]
            bit == [j \in 0..7 |-> PermBitR(Gen_final_perm, k, j)]
        IN OrLoop(8, sel, bit)]]
Gen_key_perm_maskl ==
    [k \in 0..7 |-> [i \in 0..127 |->
        LET sel == [j \in 0..6 |-> Test8(i, bits8[j + 1])]
            bit == [j \in 0..6 |-> KeyBitL(Gen_inv_key_perm, k, j)]
        IN OrLoop(7, sel, bit)]]
Gen_key_perm_maskr ==
    [k \in 0..7 |-> [i \in 0..127 |->
        LET sel == [j \in 0..6 |-> Test8(i, bits8[j + 1])]
            bit == [j \in 0..6 |-> KeyBitR(Gen_inv_key_perm, k, j)]
        IN OrLoop(7, sel, bit)]]
Gen_comp_maskl ==
    [k \in 0..7 |-> [i \in 0..127 |->
        LET sel == [j \in 0..6 |-> Test8(i, bits8[j + 1])]
            bit == [j \in 0..6 |-> CompBitL(Gen_inv_comp_perm, k, j)]
        IN OrLoop(7, sel, bit)]]
Gen_comp_maskr ==
    [k \in 0..7 |-> [i \in 0..127 |->
        LET sel == [j \in 0..6 |-> Test8(i, bits8[j + 1])]
            bit == [j \in 0..6 |-> CompBitR(Gen_inv_comp_perm, k, j)]
        IN OrLoop(7, sel, bit)]]
Gen_psbox ==
    [b \in 0..3 |-> [i \in 0..255 |->
        LET sel == [j \in 0..7 |-> Test8(i, bits8[j])]
            bit == [j \in 0..7 |-> AtW(bits32, AtB(Gen_un_pbox, 8 * b + j))]
        IN OrLoop(8, sel, bit)]]

\* The derived tables in zero-initialised static storage, before any invocation.
ZeroTables ==
    [u_sbox |-> [i \in 0..7 |-> [j \in 0..63 |-> 0]],
     m_sbox |-> [b \in 0..3 |-> [x \in 0..4095 |-> 0]],
     init_perm |-> [p \in 0..63 |-> 0],
     final_perm |-> [p \in 0..63 |-> 0],
     inv_key_perm |-> [p \in 0..63 |-> 0],
     inv_comp_perm |-> [p \in 0..55 |-> 0],
     un_pbox |-> [p \in 0..31 |-> 0],
     ip_maskl |-> [k \in 0..7 |-> [i \in 0..255 |-> {}]],
     ip_maskr |-> [k \in 0..7 |-> [i \in 0..255 |-> {}]],
     fp_maskl |-> [k \in 0..7 |-> [i \in 0..255 |-> {}]],
     fp_maskr |-> [k \in 0..7 |-> [i \in 0..255 |-> {}]],
     key_perm_maskl |-> [k \in 0..7 |-> [i \in 0..127 |-> {}]],
     key_perm_maskr |-> [k \in 0..7 |-> [i \in 0..127 |-> {}]],
     comp_maskl |-> [k \in 0..7 |-> [i \in 0..127 |-> {}]],
     comp_maskr |-> [k \in 0..7 |-> [i \in 0..127 |-> {}]],
     psbox |-> [b \in 0..3 |-> [i \in 0..255 |-> {}]]]

\* The derived tables after one uninterrupted invocation.
BuiltTables ==
    [u_sbox |-> Gen_u_sbox,
     m_sbox |-> Gen_m_sbox,
     init_perm |-> Gen_init_perm,
     final_perm |-> Gen_final_perm,
     inv_key_perm |-> Gen_inv_key_perm,
     inv_comp_perm |-> Gen_inv_comp_perm,
     un_pbox |-> Gen_un_pbox,
     ip_maskl |-> Gen_ip_maskl,
     ip_maskr |-> Gen_ip_maskr,
     fp_maskl |-> Gen_fp_maskl,
     fp_maskr |-> Gen_fp_maskr,
     key_perm_maskl |-> Gen_key_perm_maskl,
     key_perm_maskr |-> Gen_key_perm_maskr,
     comp_maskl |-> Gen_comp_maskl,
     comp_maskr |-> Gen_comp_maskr,
     psbox |-> Gen_psbox]

\* des_init_tables as one sequential call: a no-op once des_initialised is set.
des_init_tables(initialised, t) ==
    IF initialised # 0 THEN [flag |-> initialised, t |-> t]
    ELSE [flag |-> 1, t |-> BuiltTables]

(***************************************************************************)
(* Block codec (des.c lines 346-378).                                      *)
(***************************************************************************)
unpack_block(block) ==
    [left |-> Or(Or(Or(Shl(Word(block[0]), 24), Shl(Word(block[1]), 16)),
                    Shl(Word(block[2]), 8)), Word(block[3])),
     right |-> Or(Or(Or(Shl(Word(block[4]), 24), Shl(Word(block[5]), 16)),
                     Shl(Word(block[6]), 8)), Word(block[7]))]

Byte(w) == Val(And(w, Word(\hFF)))

pack_block(left, right) ==
    [n \in 0..7 |->
        CASE n = 0 -> Byte(Shr(left, 24))
          [] n = 1 -> Val(And(Shr(left, 16), Word(\hFF)))
          [] n = 2 -> Val(And(Shr(left, 8), Word(\hFF)))
          [] n = 3 -> Val(And(left, Word(\hFF)))
          [] n = 4 -> Byte(Shr(right, 24))
          [] n = 5 -> Val(And(Shr(right, 16), Word(\hFF)))
          [] n = 6 -> Val(And(Shr(right, 8), Word(\hFF)))
          [] n = 7 -> Val(And(right, Word(\hFF)))]

(***************************************************************************)
(* des_set_salt (des.c lines 381-393).                                     *)
(***************************************************************************)
RECURSIVE SaltLoop(_, _, _, _, _)
SaltLoop(i, salt, saltbit, obit, saltbits) ==
    IF i < 24
    THEN SaltLoop(i + 1, salt, Shl(saltbit, 1), Shr(obit, 1),
                  IF And(salt, saltbit) # {} THEN Or(saltbits, obit) ELSE saltbits)
    ELSE saltbits

\* A salt setup that keeps the low 24 bits where they are.
des_set_salt_unreversed(salt) == And(salt, W32(\h00FF, \hFFFF))

\* salt is the uint32_t the long argument converts to.
des_set_salt(salt) == SaltLoop(0, salt, Word(1), Word(\h800000), {})

(***************************************************************************)
(* des_set_key (des.c lines 396-459).                                      *)
(***************************************************************************)
\* Key slices taken by whole bytes, the lowest bit of each byte included.
KeySlicesWholeByte(rawkey0, rawkey1) ==
    [n \in 0..7 |->
        CASE n = 0 -> Val(And(Shr(rawkey0, 24), Word(\h7F)))
          [] n = 1 -> Val(And(Shr(rawkey0, 16), Word(\h7F)))
          [] n = 2 -> Val(And(Shr(rawkey0, 8), Word(\h7F)))
          [] n = 3 -> Val(And(rawkey0, Word(\h7F)))
          [] n = 4 -> Val(And(Shr(rawkey1, 24), Word(\h7F)))
          [] n = 5 -> Val(And(Shr(rawkey1, 16), Word(\h7F)))
          [] n = 6 -> Val(And(Shr(rawkey1, 8), Word(\h7F)))
          [] n = 7 -> Val(And(rawkey1, Word(\h7F)))]

\* The eight table indices taken from the raw key words.
KeySlices(rawkey0, rawkey1) ==
    [n \in 0..7 |->
        CASE n = 0 -> Val(Shr(rawkey0, 25))
          [] n = 1 -> Val(And(Shr(rawkey0, 17), Word(\h7F)))
          [] n = 2 -> Val(And(Shr(rawkey0, 9), Word(\h7F)))
          [] n = 3 -> Val(And(Shr(rawkey0, 1), Word(\h7F)))
          [] n = 4 -> Val(Shr(rawkey1, 25))
          [] n = 5 -> Val(And(Shr(rawkey1, 17), Word(\h7F)))
          [] n = 6 -> Val(And(Shr(rawkey1, 9), Word(\h7F)))
          [] n = 7 -> Val(And(Shr(rawkey1, 1), Word(\h7F)))]

\* The eight table indices taken from the rotated halves t0 and t1.
CompSlices(t0, t1) ==
    [n \in 0..7 |->
        CASE n = 0 -> Val(And(Shr(t0, 21), Word(\h7F)))
          [] n = 1 -> Val(And(Shr(t0, 14), Word(\h7F)))
          [] n = 2 -> Val(And(Shr(t0, 7), Word(\h7F)))
          [] n = 3 -> Val(And(t0, Word(\h7F)))
          [] n = 4 -> Val(And(Shr(t1, 21), Word(\h7F)))
          [] n = 5 -> Val(And(Shr(t1, 14), Word(\h7F)))
          [] n = 6 -> Val(And(Shr(t1, 7), Word(\h7F)))
          [] n = 7 -> Val(And(t1, Word(\h7F)))]

\* mask[0][s[0]] | mask[1][s[1]] | ... | mask[7][s[7]]
Lookup8(mask, s) == OrAll({AtW(mask[n], s[n]) : n \in 0..7})

\* shifts after `shifts += key_shifts[round]` in round `round`.
RECURSIVE Shifts(_)
Shifts(round) == IF round < 0 THEN 0 ELSE Shifts(round - 1) + key_shifts[round]

\* A rotation of the whole 32-bit word instead of its low 28 bits.
RotatedWord(k, shifts) == Or(Shl(k, shifts), Shr(k, 32 - shifts))

\* (k << shifts) | (k >> (28 - shifts)), for t0 and for t1.
RotatedHalf(k, shifts) == Or(Shl(k, shifts), Shr(k, 28 - shifts))

KeyHalves(t, key) ==
    LET raw == unpack_block(key)
        s == KeySlices(raw.left, raw.right)
    IN [k0 |-> Lookup8(t.key_perm_maskl, s), k1 |-> Lookup8(t.key_perm_maskr, s)]

des_set_key(t, key) ==
    LET k == KeyHalves(t, key)
        cs(round) == CompSlices(RotatedHalf(k.k0, Shifts(round)),
                                RotatedHalf(k.k1, Shifts(round)))
    IN [en_keysl |-> [round \in 0..15 |-> Lookup8(t.comp_maskl, cs(round))],
        en_keysr |-> [round \in 0..15 |-> Lookup8(t.comp_maskr, cs(round))]]

(***************************************************************************)
(* do_des (des.c lines 462-582).                                           *)
(***************************************************************************)
\* The eight byte indices of a pair of words.
ByteSlices(a, b) ==
    [n \in 0..7 |->
        CASE n = 0 -> Val(Shr(a, 24))
          [] n = 1 -> Val(And(Shr(a, 16), Word(\hFF)))
          [] n = 2 -> Val(And(Shr(a, 8), Word(\hFF)))
          [] n = 3 -> Val(And(a, Word(\hFF)))
          [] n = 4 -> Val(Shr(b, 24))
          [] n = 5 -> Val(And(Shr(b, 16), Word(\hFF)))
          [] n = 6 -> Val(And(Shr(b, 8), Word(\hFF)))
          [] n = 7 -> Val(And(b, Word(\hFF)))]

\* The initial permutation of the unpacked input.
InitialPerm(t, input) ==
    LET w == unpack_block(input)
        s == ByteSlices(w.left, w.right)
    IN [l |-> Lookup8(t.ip_maskl, s), r |-> Lookup8(t.ip_maskr, s)]

\* The final permutation, packed into the output block.
FinalPerm(t, l, r) ==
    LET s == ByteSlices(l, r)
    IN pack_block(Lookup8(t.fp_maskl, s), Lookup8(t.fp_maskr, s))

\* An expansion whose wrapped-around bit lands one position too high.
R48LShiftedHigh(r) ==
    Or(Or(Or(Or(Shl(And(r, W32(\h0000, \h0001)), 24),
                Shr(And(r, W32(\hF800, \h0000)), 9)),
             Shr(And(r, W32(\h1F80, \h0000)), 11)),
          Shr(And(r, W32(\h01F8, \h0000)), 13)),
       Shr(And(r, W32(\h001F, \h8000)), 15))

\* Expansion of r to two 24-bit halves (the E-box).
R48L(r) ==
    Or(Or(Or(Or(Shl(And(r, W32(\h0000, \h0001)), 23),
                Shr(And(r, W32(\hF800, \h0000)), 9)),
             Shr(And(r, W32(\h1F80, \h0000)), 11)),
          Shr(And(r, W32(\h01F8, \h0000)), 13)),
       Shr(And(r, W32(\h001F, \h8000)), 15))

R48R(r) ==
    Or(Or(Or(Or(Shl(And(r, W32(\h0001, \hF800)), 7),
                Shl(And(r, W32(\h0000, \h1F80)), 5)),
             Shl(And(r, W32(\h0000, \h01F8)), 3)),
          Shl(And(r, W32(\h0000, \h001F)), 1)),
       Shr(And(r, W32(\h8000, \h0000)), 31))

\* The salted, keyed halves of one round: subkeys *kl and *kr at offsets kl, kr.
Salted(ctx, r, kl, kr) ==
    LET f == And(Xor(R48L(r), R48R(r)), ctx.saltbits)
    IN [r48l |-> Xor(R48L(r), Xor(f, AtW(ctx.en_keysl, kl))),
        r48r |-> Xor(R48R(r), Xor(f, AtW(ctx.en_keysr, kr)))]

\* The four m_sbox indices of one round.
SboxSlices(x) ==
    [n \in 0..3 |->
        CASE n = 0 -> Val(Shr(x.r48l, 12))
          [] n = 1 -> Val(And(x.r48l, Word(\hFFF)))
          [] n = 2 -> Val(Shr(x.r48r, 12))
          [] n = 3 -> Val(And(x.r48r, Word(\hFFF)))]

\* One Feistel round: f = psbox[..][m_sbox[..][..]] | ...; f ^= l; l = r; r = f.
Round(t, ctx, l, r, kl, kr) ==
    LET s == SboxSlices(Salted(ctx, r, kl, kr))
        f == Xor(OrAll({AtW(t.psbox[n], AtB(t.m_sbox[n], s[n])) : n \in 0..3}), l)
    IN [l |-> r, r |-> f, f |-> f]

\* A repetition that ends without exchanging the halves.
SwapUndoOmitted(l, r, f) == [l |-> l, r |-> r]

\* The statements after the 16th round: r = l; l = f.
SwapUndo(l, r, f) == [l |-> f, r |-> l]

\* A round loop that stops one round early.
RoundTestShort(round) == round > 1

\* The test of `while (round--)`, on the value round has before the decrement.
RoundTest(round) == round # 0

\* `round` rounds of one repetition, the subkey pointers at 16 - round.
RECURSIVE Rounds(_, _, _, _, _, _)
Rounds(t, ctx, l, r, f, round) ==
    IF ~RoundTest(round) THEN [l |-> l, r |-> r, f |-> f]
    ELSE LET x == Round(t, ctx, l, r, 16 - round, 16 - round)
         IN Rounds(t, ctx, x.l, x.r, x.f, round - 1)

\* The loop `while (count--)`.
RECURSIVE Repeat(_, _, _, _, _)
Repeat(t, ctx, l, r, count) ==
    IF count = 0 THEN [l |-> l, r |-> r]
    ELSE LET x == Rounds(t, ctx, l, r, {}, 16)
             y == SwapUndo(x.l, x.r, x.f)
         IN Repeat(t, ctx, y.l, y.r, count - 1)

do_des(t, ctx, input, output, count) ==
    IF count = 0 THEN [rc |-> 1, output |-> output]
    ELSE IF count > 0
    THEN LET p == InitialPerm(t, input)
             x == Repeat(t, ctx, p.l, p.r, count)
         IN [rc |-> 0, output |-> FinalPerm(t, x.l, x.r)]
    ELSE [rc |-> 1, output |-> output]

(***************************************************************************)
(* des_cipher_block (des.c lines 585-597), as one uninterrupted call.      *)
(***************************************************************************)
ZeroCtx ==
    [saltbits |-> {}, en_keysl |-> [n \in 0..15 |-> {}], en_keysr |-> [n \in 0..15 |-> {}]]

MakeCtx(t, key, salt) ==
    LET ks == des_set_key(t, key)
    IN [saltbits |-> des_set_salt(WordOfLong(salt)),
        en_keysl |-> ks.en_keysl, en_keysr |-> ks.en_keysr]

des_cipher_block(initialised, t, key, input, output, salt, count) ==
    LET g == des_init_tables(initialised, t)
        res == do_des(g.t, MakeCtx(g.t, key, salt), input, output, count)
    IN [rc |-> res.rc, output |-> res.output, ctx |-> ZeroCtx,
        des_initialised |-> g.flag, tables |-> g.t]


(***************************************************************************)
(* Index ranges of the table reads and writes.                             *)
(***************************************************************************)
\* des_init_tables: every index the generation loops use lies inside its array.
GenInRange ==
    /\ \A j \in 0..63 : InRange(sbox[0], SboxIndex(j))
    /\ \A i \in 0..63 : InRange(Gen_init_perm, IP[i] - 1)
    /\ \A i \in 0..55 : InRange(Gen_inv_key_perm, key_perm[i] - 1)
    /\ \A i \in 0..47 : InRange(Gen_inv_comp_perm, comp_perm[i] - 1)
    /\ \A i \in 0..31 : InRange(Gen_un_pbox, pbox[i] - 1)
    /\ \A k \in 0..7, j \in 0..7 :
          /\ InRange(Gen_init_perm, 8 * k + j)
          /\ LET obit == Gen_init_perm[8 * k + j]
             IN InRange(bits32, IF obit < 32 THEN obit ELSE obit - 32)
          /\ LET obit == Gen_final_perm[8 * k + j]
             IN InRange(bits32, IF obit < 32 THEN obit ELSE obit - 32)
    /\ \A k \in 0..7, j \in 0..6 :
          /\ InRange(Gen_inv_key_perm, 8 * k + j)
          /\ LET obit == Gen_inv_key_perm[8 * k + j]
             IN obit = 255 \/ InRange(bits28, IF obit < 28 THEN obit ELSE obit - 28)
          /\ InRange(Gen_inv_comp_perm, 7 * k + j)
          /\ LET obit == Gen_inv_comp_perm[7 * k + j]
             IN obit = 255 \/ InRange(bits24, IF obit < 24 THEN obit ELSE obit - 24)
    /\ \A b \in 0..3, j \in 0..7 :
          /\ InRange(Gen_un_pbox, 8 * b + j)
          /\ InRange(bits32, Gen_un_pbox[8 * b + j])

\* des_set_key: the key-mask and compression-mask indices.
KeyInRange(t, key) ==
    LET raw == unpack_block(key)
        s == KeySlices(raw.left, raw.right)
        k == KeyHalves(t, key)
    IN /\ \A n \in 0..7 : InRange(t.key_perm_maskl[n], s[n])
       /\ \A round \in 0..15 :
             LET cs == CompSlices(RotatedHalf(k.k0, Shifts(round)),
                                  RotatedHalf(k.k1, Shifts(round)))
             IN \A n \in 0..7 : InRange(t.comp_maskl[n], cs[n])

\* do_des: the permutation-mask indices of a pair of words.
BytesInRange(t, a, b) ==
    \A n \in 0..7 : InRange(t.ip_maskl[n], ByteSlices(a, b)[n])

\* do_des: the subkey, m_sbox and psbox indices of one round.
RoundInRange(t, ctx, r, kl, kr) ==
    LET s == SboxSlices(Salted(ctx, r, kl, kr))
    IN /\ InRange(ctx.en_keysl, kl)
       /\ InRange(ctx.en_keysr, kr)
       /\ \A n \in 0..3 :
             /\ InRange(t.m_sbox[n], s[n])
             /\ InRange(t.psbox[n], AtB(t.m_sbox[n], s[n]))

(***************************************************************************)
(* The calls the model makes.                                              *)
(***************************************************************************)
Blk(s) == Arr(s)

Keys ==
    { Blk(<< \h00, \h00, \h00, \h00, \h00, \h00, \h00, \h00 >>),
      Blk(<< \h01, \h01, \h01, \h01, \h01, \h01, \h01, \h01 >>),
      Blk(<< \h01, \h23, \h45, \h67, \h89, \hAB, \hCD, \hEF >>),
      Blk(<< \h00, \h22, \h45, \h66, \h88, \hAB, \hCC, \hEE >> ) }

Inputs ==
    { Blk(<< \h00, \h00, \h00, \h00, \h00, \h00, \h00, \h00 >>),
      Blk(<< \h4E, \h6F, \h77, \h20, \h69, \h73, \h20, \h74 >>) }

\* 0x1000001 agrees with 1, and -1 with 0xFFFFFF, in the low 24 bits.
Salts == { 0, 1, \hC0FFEE, \h1000001, \hFFFFFF, -1 }

Counts == (-1)..MaxCount

\* The caller's output buffer before the call.
Sentinel == Blk(<< \hAA, \hAA, \hAA, \hAA, \hAA, \hAA, \hAA, \hAA >>)

\* An automatic des_ctx_t before des_set_key and des_set_salt fill it.
StackCtx ==
    [saltbits |-> 0..31, en_keysl |-> [n \in 0..15 |-> 0..31],
     en_keysr |-> [n \in 0..15 |-> 0..31]]

\* No des_cipher_block call is active.
IdleFrame ==
    [pc |-> "idle", key |-> Sentinel, input |-> Sentinel, salt |-> 0, count |-> 0,
     ctx |-> ZeroCtx, rc |-> 0, l |-> {}, r |-> {}, f |-> {}, round |-> 0,
     kl |-> 0, kr |-> 0]

\* What the model records about the active call, beside the program's own state.
IdleHist ==
    [out0 |-> Sentinel, count0 |-> 0, nIP |-> 0, nFP |-> 0, nRounds |-> 0,
     nSwaps |-> 0, order |-> << >>, oob |-> FALSE]

\* The threads of the concurrent model, before they start.
IdleThreads == [th \in 1..NumThreads |-> [pc |-> "idle", k |-> 0, i |-> 0, j |-> 0, reg |-> {}]]

Init ==
    /\ des_initialised = 0
    /\ tables = ZeroTables
    /\ frame = IdleFrame
    /\ outbuf = Sentinel
    /\ hist = IdleHist
    /\ threads = IdleThreads

(***************************************************************************)
(* A client calls des_init_tables directly (it is a public function).      *)
(***************************************************************************)
CallInitTables ==
    /\ frame.pc = "idle"
    /\ LET g == des_init_tables(des_initialised, tables)
       IN /\ des_initialised' = g.flag
          /\ tables' = g.t
    /\ UNCHANGED <<frame, outbuf, hist, threads>>

(***************************************************************************)
(* des_cipher_block, statement by statement, do_des inlined.               *)
(***************************************************************************)
CallCipher ==
    /\ frame.pc = "idle"
    /\ \E key \in Keys, input \in Inputs, salt \in Salts, count \in Counts :
          /\ frame' = [IdleFrame EXCEPT !.pc = "entry", !.key = key, !.input = input,
                                        !.salt = salt, !.count = count,
                                        !.ctx = StackCtx]
          /\ hist' = [IdleHist EXCEPT !.out0 = Sentinel, !.count0 = count]
    /\ outbuf' = Sentinel
    /\ UNCHANGED <<des_initialised, tables, threads>>

\* if (!des_initialised) des_init_tables();
EnsureTables ==
    /\ frame.pc = "entry"
    /\ LET g == des_init_tables(des_initialised, tables)
       IN /\ des_initialised' = g.flag
          /\ tables' = g.t
    /\ frame' = [frame EXCEPT !.pc = "set_key"]
    /\ hist' = [hist EXCEPT !.oob = @ \/ (des_initialised = 0 /\ ~GenInRange)]
    /\ UNCHANGED <<outbuf, threads>>

\* des_set_key(&ctx, key); it calls des_init_tables() again.
SetKey ==
    /\ frame.pc = "set_key"
    /\ LET g == des_init_tables(des_initialised, tables)
           ks == des_set_key(g.t, frame.key)
       IN /\ des_initialised' = g.flag
          /\ tables' = g.t
          /\ frame' = [frame EXCEPT !.pc = "set_salt",
                                    !.ctx.en_keysl = ks.en_keysl,
                                    !.ctx.en_keysr = ks.en_keysr]
          /\ hist' = [hist EXCEPT !.oob = @ \/ ~KeyInRange(g.t, frame.key)]
    /\ UNCHANGED <<outbuf, threads>>

\* des_set_salt(&ctx, salt);
SetSalt ==
    /\ frame.pc = "set_salt"
    /\ frame' = [frame EXCEPT !.pc = "do_des",
                              !.ctx.saltbits = des_set_salt(WordOfLong(frame.salt))]
    /\ UNCHANGED <<des_initialised, tables, outbuf, hist, threads>>

\* A count test that rejects negative counts only.
CountRejectedNegative(count) == count < 0

\* do_des: count == 0 and count < 0 both return(1).
CountRejected(count) == count = 0 \/ ~(count > 0)

\* do_des up to the loop: the count test, then the initial permutation.
DoDesEntry ==
    /\ frame.pc = "do_des"
    /\ IF CountRejected(frame.count)
       THEN /\ frame' = [frame EXCEPT !.pc = "wipe", !.rc = 1]
            /\ hist' = hist
       ELSE LET p == InitialPerm(tables, frame.input)
                w == unpack_block(frame.input)
            IN /\ frame' = [frame EXCEPT !.pc = "loop", !.l = p.l, !.r = p.r]
               /\ hist' = [hist EXCEPT !.nIP = @ + 1,
                                       !.oob = @ \/ ~BytesInRange(tables, w.left, w.right)]
    /\ UNCHANGED <<des_initialised, tables, outbuf, threads>>

\* while (count--) { kl = kl1; kr = kr1; round = 16; ...
LoopHead ==
    /\ frame.pc = "loop"
    /\ IF frame.count # 0
       THEN frame' = [frame EXCEPT !.pc = "round", !.count = @ - 1, !.kl = 0, !.kr = 0,
                                   !.round = 16]
       ELSE frame' = [frame EXCEPT !.pc = "final", !.count = @ - 1]
    /\ hist' = [hist EXCEPT !.order = << >>]
    /\ UNCHANGED <<des_initialised, tables, outbuf, threads>>

\* while (round--) { one round; }
RoundStep ==
    /\ frame.pc = "round"
    /\ RoundTest(frame.round)
    /\ LET x == Round(tables, frame.ctx, frame.l, frame.r, frame.kl, frame.kr)
       IN frame' = [frame EXCEPT !.round = @ - 1, !.l = x.l, !.r = x.r, !.f = x.f,
                                 !.kl = @ + 1, !.kr = @ + 1]
    /\ hist' = [hist EXCEPT !.nRounds = @ + 1,
                            !.order = Append(@, frame.kl),
                            !.oob = @ \/ ~RoundInRange(tables, frame.ctx, frame.r,
                                                        frame.kl, frame.kr)]
    /\ UNCHANGED <<des_initialised, tables, outbuf, threads>>

\* The round loop ends (round-- yields 0); r = l; l = f;
SwapStep ==
    /\ frame.pc = "round"
    /\ ~RoundTest(frame.round)
    /\ LET y == SwapUndo(frame.l, frame.r, frame.f)
       IN frame' = [frame EXCEPT !.pc = "loop", !.round = @ - 1, !.l = y.l, !.r = y.r]
    /\ hist' = [hist EXCEPT !.nSwaps = @ + 1]
    /\ UNCHANGED <<des_initialised, tables, outbuf, threads>>

\* The final permutation, pack_block(output, lt, rt) and return(0).
FinalStep ==
    /\ frame.pc = "final"
    /\ outbuf' = FinalPerm(tables, frame.l, frame.r)
    /\ frame' = [frame EXCEPT !.pc = "wipe", !.rc = 0]
    /\ hist' = [hist EXCEPT !.nFP = @ + 1,
                            !.oob = @ \/ ~BytesInRange(tables, frame.l, frame.r)]
    /\ UNCHANGED <<des_initialised, tables, threads>>

\* A wipe of the first two words of the context only.
WipeFirstWords(ctx) == [ctx EXCEPT !.saltbits = {}, !.en_keysl[0] = {}]

\* memset(&ctx, 0, sizeof(ctx));
WipeCtx(ctx) == ZeroCtx

Wipe ==
    /\ frame.pc = "wipe"
    /\ frame' = [frame EXCEPT !.pc = "ret", !.ctx = WipeCtx(frame.ctx)]
    /\ UNCHANGED <<des_initialised, tables, outbuf, hist, threads>>

\* return rc; the frame is gone and the caller takes the buffer away.
Return ==
    /\ frame.pc = "ret"
    /\ frame' = IdleFrame
    /\ outbuf' = Sentinel
    /\ hist' = IdleHist
    /\ UNCHANGED <<des_initialised, tables, threads>>

Next ==
    \/ CallInitTables
    \/ CallCipher
    \/ EnsureTables
    \/ SetKey
    \/ SetSalt
    \/ DoDesEntry
    \/ LoopHead
    \/ RoundStep
    \/ SwapStep
    \/ FinalStep
    \/ Wipe
    \/ Return

vars == <<des_initialised, tables, frame, outbuf, hist, threads>>

Spec == Init /\ [][Next]_vars

(***************************************************************************)
(* des_init_tables run by several threads at once (des.c lines 216-343).   *)
(* The flag is a plain int and the tables plain static arrays, so every    *)
(* load and store is a step of its own and `*p |= bit` is a load followed  *)
(* by a store.  The model follows the flag test (line 222), the initial    *)
(* and final permutation tables (lines 251-252), the OR-mask cells of the  *)
(* initial and final permutation for k < GenK and i < GenI (lines          *)
(* 276-295) and the flag store (line 342); the stores of lines 251-252     *)
(* write values that depend on the static table IP alone.                  *)
(***************************************************************************)
\* The followed cells before any invocation.
SliceZero ==
    [init_perm |-> [p \in 0..63 |-> 0],
     final_perm |-> [p \in 0..63 |-> 0],
     ip_maskl |-> [k \in 0..(GenK - 1) |-> [i \in 0..(GenI - 1) |-> {}]],
     ip_maskr |-> [k \in 0..(GenK - 1) |-> [i \in 0..(GenI - 1) |-> {}]],
     fp_maskl |-> [k \in 0..(GenK - 1) |-> [i \in 0..(GenI - 1) |-> {}]],
     fp_maskr |-> [k \in 0..(GenK - 1) |-> [i \in 0..(GenI - 1) |-> {}]]]

\* The followed cells after one uninterrupted invocation.
SliceBuilt ==
    [init_perm |-> Gen_init_perm,
     final_perm |-> Gen_final_perm,
     ip_maskl |-> [k \in 0..(GenK - 1) |-> [i \in 0..(GenI - 1) |-> Gen_ip_maskl[k][i]]],
     ip_maskr |-> [k \in 0..(GenK - 1) |-> [i \in 0..(GenI - 1) |-> Gen_ip_maskr[k][i]]],
     fp_maskl |-> [k \in 0..(GenK - 1) |-> [i \in 0..(GenI - 1) |-> Gen_fp_maskl[k][i]]],
     fp_maskr |-> [k \in 0..(GenK - 1) |-> [i \in 0..(GenI - 1) |-> Gen_fp_maskr[k][i]]]]

InitThreads ==
    /\ des_initialised = 0
    /\ tables = SliceZero
    /\ frame = IdleFrame
    /\ outbuf = Sentinel
    /\ hist = IdleHist
    /\ threads = [th \in 1..NumThreads |-> [IdleThreads[th] EXCEPT !.pc = "check"]]

\* The first j >= from with i & bits8[j] set, or 8: the `if (i & bits8[j])` of
\* the j loop, which touches no shared cell.
NextJ(i, from) ==
    LET js == {j \in from..7 : Test8(i, bits8[j])}
    IN IF js = {} THEN 8 ELSE CHOOSE j \in js : \A h \in js : j <= h

\* Where a thread goes from cell (k, i) once bit j - 1 is done: the next set bit of
\* the cell, else the next cell, else the flag store.
Advance(th, k, i, j) ==
    IF NextJ(i, j) < 8
    THEN [threads[th] EXCEPT !.pc = "ip_load", !.j = NextJ(i, j)]
    ELSE IF i + 1 < GenI
    THEN [threads[th] EXCEPT !.pc = "zero_il", !.i = i + 1, !.j = 0]
    ELSE IF k + 1 < GenK
    THEN [threads[th] EXCEPT !.pc = "zero_il", !.k = k + 1, !.i = 0, !.j = 0]
    ELSE [threads[th] EXCEPT !.pc = "flag"]

\* The cell `*il |= ...` or `*ir |= ...` addresses for input bit j of byte k.
Target(perm, k, j, left, right) == IF AtB(perm, 8 * k + j) < 32 THEN left ELSE right

\* if (des_initialised) return;
TCheck(th) ==
    /\ threads[th].pc = "check"
    /\ threads' = [threads EXCEPT ![th].pc = IF des_initialised # 0 THEN "done" ELSE "perm"]
    /\ UNCHANGED <<des_initialised, tables, frame, outbuf, hist>>

\* init_perm[final_perm[i] = IP[i] - 1] = i, for every i.
TPerm(th) ==
    /\ threads[th].pc = "perm"
    /\ tables' = [tables EXCEPT !.init_perm = Gen_init_perm, !.final_perm = Gen_final_perm]
    /\ threads' = [threads EXCEPT ![th].pc = "zero_il", ![th].k = 0, ![th].i = 0]
    /\ UNCHANGED <<des_initialised, frame, outbuf, hist>>

\* *(il = &ip_maskl[k][i]) = 0L; and the three stores after it.
TZero(th) ==
    LET me == threads[th]
    IN /\ me.pc \in {"zero_il", "zero_ir", "zero_fl", "zero_fr"}
       /\ tables' =
             CASE me.pc = "zero_il" -> [tables EXCEPT !.ip_maskl[me.k][me.i] = {}]
               [] me.pc = "zero_ir" -> [tables EXCEPT !.ip_maskr[me.k][me.i] = {}]
               [] me.pc = "zero_fl" -> [tables EXCEPT !.fp_maskl[me.k][me.i] = {}]
               [] me.pc = "zero_fr" -> [tables EXCEPT !.fp_maskr[me.k][me.i] = {}]
       /\ threads' =
             CASE me.pc = "zero_il" -> [threads EXCEPT ![th].pc = "zero_ir"]
               [] me.pc = "zero_ir" -> [threads EXCEPT ![th].pc = "zero_fl"]
               [] me.pc = "zero_fl" -> [threads EXCEPT ![th].pc = "zero_fr"]
               [] me.pc = "zero_fr" -> [threads EXCEPT ![th] = Advance(th, me.k, me.i, 0)]
       /\ UNCHANGED <<des_initialised, frame, outbuf, hist>>

\* The load of `*il |= bits32[obit]` (or of `*ir |= bits32[obit-32]`).
TIpLoad(th) ==
    LET me == threads[th]
        cell == Target(tables.init_perm, me.k, me.j, "ip_maskl", "ip_maskr")
    IN /\ me.pc = "ip_load"
       /\ threads' = [threads EXCEPT ![th].pc = "ip_store", ![th].reg = tables[cell][me.k][me.i]]
       /\ UNCHANGED <<des_initialised, tables, frame, outbuf, hist>>

\* Its store.
TIpStore(th) ==
    LET me == threads[th]
        cell == Target(tables.init_perm, me.k, me.j, "ip_maskl", "ip_maskr")
        bit == Or(PermBitL(tables.init_perm, me.k, me.j), PermBitR(tables.init_perm, me.k, me.j))
    IN /\ me.pc = "ip_store"
       /\ tables' = [tables EXCEPT ![cell][me.k][me.i] = Or(me.reg, bit)]
       /\ threads' = [threads EXCEPT ![th].pc = "fp_load"]
       /\ UNCHANGED <<des_initialised, frame, outbuf, hist>>

\* The load of `*fl |= bits32[obit]` (or of `*fr |= bits32[obit - 32]`).
TFpLoad(th) ==
    LET me == threads[th]
        cell == Target(tables.final_perm, me.k, me.j, "fp_maskl", "fp_maskr")
    IN /\ me.pc = "fp_load"
       /\ threads' = [threads EXCEPT ![th].pc = "fp_store", ![th].reg = tables[cell][me.k][me.i]]
       /\ UNCHANGED <<des_initialised, tables, frame, outbuf, hist>>

\* Its store, and on to the next set bit, the next cell or the flag.
TFpStore(th) ==
    LET me == threads[th]
        cell == Target(tables.final_perm, me.k, me.j, "fp_maskl", "fp_maskr")
        bit == Or(PermBitL(tables.final_perm, me.k, me.j), PermBitR(tables.final_perm, me.k, me.j))
    IN /\ me.pc = "fp_store"
       /\ tables' = [tables EXCEPT ![cell][me.k][me.i] = Or(me.reg, bit)]
       /\ threads' = [threads EXCEPT ![th] = Advance(th, me.k, me.i, me.j + 1)]
       /\ UNCHANGED <<des_initialised, frame, outbuf, hist>>

\* des_initialised = 1;
TFlag(th) ==
    /\ threads[th].pc = "flag"
    /\ des_initialised' = 1
    /\ threads' = [threads EXCEPT ![th].pc = "done"]
    /\ UNCHANGED <<tables, frame, outbuf, hist>>

NextThreads ==
    \E th \in 1..NumThreads :
        \/ TCheck(th)
        \/ TPerm(th)
        \/ TZero(th)
        \/ TIpLoad(th)
        \/ TIpStore(th)
        \/ TFpLoad(th)
        \/ TFpStore(th)
        \/ TFlag(th)

SpecThreads == InitThreads /\ [][NextThreads]_vars

(***************************************************************************)
(* Properties.                                                             *)
(***************************************************************************)
\* The call has set its key and not yet wiped its context.
KeyIsSet == frame.pc \in {"set_salt", "do_des", "loop", "round", "final", "wipe"}

\* The call has set its salt and not yet wiped its context.
SaltIsSet == frame.pc \in {"do_des", "loop", "round", "final", "wipe"}

\* C1: a call with count <= 0 returns a nonzero code and leaves the output
\* buffer as it was before the call, at every step of the call; a call with
\* count >= 1 returns 0 and its output buffer holds the block the final
\* permutation produced.
C1_CountContract ==
    /\ (frame.pc # "idle" /\ hist.count0 <= 0) => outbuf = hist.out0
    /\ (frame.pc = "ret" /\ hist.count0 <= 0) => (frame.rc # 0 /\ hist.nFP = 0)
    /\ (frame.pc = "ret" /\ hist.count0 >= 1) =>
          /\ frame.rc = 0
          /\ hist.nFP = 1
          /\ outbuf = FinalPerm(tables, frame.l, frame.r)

C1_Witness ==
    /\ frame.pc = "ret"
    /\ hist.count0 = 0
    /\ frame.rc = 1
    /\ outbuf = Sentinel
    /\ frame.input # Sentinel

\* C2: when des_cipher_block returns, on the success path and on the error
\* path alike, every word of its key-schedule context is zero.
C2_ContextWiped == frame.pc = "ret" => frame.ctx = ZeroCtx

C2_Witness ==
    /\ frame.pc = "ret"
    /\ frame.rc = 1
    /\ frame.ctx = ZeroCtx
    /\ des_set_key(tables, frame.key) # [en_keysl |-> ZeroCtx.en_keysl,
                                         en_keysr |-> ZeroCtx.en_keysr]

\* C3: once every concurrent invocation of des_init_tables has returned, the
\* tables are the ones a single invocation builds.
C3_ConcurrentInitIdentical ==
    (\A th \in 1..NumThreads : threads[th].pc = "done") => tables = SliceBuilt

\* C4: whenever the flag des_initialised is set, every table cell holds its
\* fully built value, so that no cell is written after the flag is set and a
\* reader that saw the flag reads built tables.
C4_FlagImpliesBuilt == des_initialised = 1 => tables = SliceBuilt

\* The left 24-bit half of the compression permutation of the 56-bit C|D,
\* bit p of which is bit 27 - p of c for p < 28 and bit 55 - p of d otherwise.
PermutedChoice2(c, d, from) ==
    { 23 - o : o \in { o \in 0..23 :
                 LET p == comp_perm[from + o] - 1
                 IN IF p < 28 THEN (27 - p) \in c ELSE (55 - p) \in d } }

\* A left rotation by s of the 28-bit quantity in the low bits of k.
Rot28(k, s) == { (b + s) % 28 : b \in k \cap 0..27 }

\* The key with the lowest bit of every byte cleared.
ClearParity(key) == [n \in 0..7 |-> (key[n] \div 2) * 2]

\* The output of a whole call on built tables.
Ciphered(key, input, salt, count) ==
    des_cipher_block(1, tables, key, input, Sentinel, salt, count).output

\* The block two successive count = 1 calls give, the second on the output of
\* the first.
CipheredTwice(key, input, salt) == Ciphered(key, Ciphered(key, input, salt, 1), salt, 1)

\* The order and number of the steps of a call with count >= 1: the initial
\* permutation once before any round, count times sixteen rounds on subkeys
\* 0..15 in that order, each sixteen followed by one exchange of the halves,
\* the final permutation once after the last exchange, 16 * count rounds in
\* all, and the output the block of that composition.
StepsInOrder ==
    /\ hist.nIP <= 1 /\ hist.nFP <= 1
    /\ hist.nRounds > 0 => hist.nIP = 1
    /\ hist.nFP = 1 => (hist.nRounds = 16 * hist.count0 /\ hist.nSwaps = hist.count0)
    /\ \A m \in 1..Len(hist.order) : hist.order[m] = m - 1
    /\ frame.pc = "round" =>
          /\ Len(hist.order) <= 16
          /\ hist.nRounds = 16 * hist.nSwaps + Len(hist.order)
    /\ frame.pc \in {"loop", "final", "wipe", "ret"} => hist.nRounds = 16 * hist.nSwaps
    /\ (frame.pc = "ret" /\ hist.count0 >= 1) =>
          /\ hist.nIP = 1 /\ hist.nFP = 1
          /\ hist.nRounds = 16 * hist.count0
          /\ hist.nSwaps = hist.count0
          /\ outbuf = Ciphered(frame.key, frame.input, frame.salt, hist.count0)

\* C5 (as amended): a call with count >= 1 applies the initial permutation
\* once, then count times sixteen rounds on subkeys 0..15 in order, each
\* sixteen followed by one exchange of the halves, then the final permutation
\* once, 16 * count rounds in all; the final permutation being the inverse of
\* the initial one, the count = 2 result equals the result of two successive
\* count = 1 calls.
C5_RoundStructure ==
    /\ StepsInOrder
    /\ (frame.pc = "ret" /\ hist.count0 = 2) =>
          outbuf = CipheredTwice(frame.key, frame.input, frame.salt)

\* C5 (as stated): the same order and number of steps, and the count = 2
\* result differs from the result of two successive count = 1 calls.
C5_AsStated ==
    /\ StepsInOrder
    /\ (frame.pc = "ret" /\ hist.count0 = 2) =>
          outbuf # CipheredTwice(frame.key, frame.input, frame.salt)

C5_Witness ==
    /\ frame.pc = "ret"
    /\ hist.count0 = 2
    /\ hist.nRounds = 32
    /\ hist.nSwaps = 2
    /\ hist.nIP = 1
    /\ hist.nFP = 1
    /\ frame.key = Blk(<< \h01, \h23, \h45, \h67, \h89, \hAB, \hCD, \hEF >>)
    /\ frame.salt = \hC0FFEE
    /\ outbuf = CipheredTwice(frame.key, frame.input, frame.salt)
    /\ outbuf # frame.input

ZeroBlock == Blk(<< \h00, \h00, \h00, \h00, \h00, \h00, \h00, \h00 >>)

KnownVector == Blk(<< \h8C, \hA6, \h4D, \hE9, \hC1, \hB1, \h23, \hA7 >>)

\* C6: the all-zero key, the all-zero block, salt 0 and count 1 return 0 and
\* give the block 8C A6 4D E9 C1 B1 23 A7.
C6_KnownAnswer ==
    (/\ frame.pc = "ret"
     /\ frame.key = ZeroBlock
     /\ frame.input = ZeroBlock
     /\ frame.salt = 0
     /\ hist.count0 = 1) => (frame.rc = 0 /\ outbuf = KnownVector)

C6_Witness ==
    /\ frame.pc = "ret"
    /\ frame.key = ZeroBlock
    /\ frame.input = ZeroBlock
    /\ frame.salt = 0
    /\ hist.count0 = 1
    /\ outbuf = KnownVector

\* C7: the lowest bit of each key byte has no influence: the subkeys of a key
\* are those of the key with these eight bits cleared, and so is the output
\* block of the call.
C7_ParityIgnored ==
    /\ frame.pc = "set_salt" =>
          LET ks == des_set_key(tables, ClearParity(frame.key))
          IN /\ frame.ctx.en_keysl = ks.en_keysl
             /\ frame.ctx.en_keysr = ks.en_keysr
    /\ (frame.pc = "ret" /\ hist.count0 >= 1) =>
          outbuf = Ciphered(ClearParity(frame.key), frame.input, frame.salt, hist.count0)

C7_Witness ==
    /\ frame.pc = "ret"
    /\ hist.count0 >= 1
    /\ frame.key # ClearParity(frame.key)
    /\ ClearParity(frame.key) \in Keys
    /\ outbuf = Ciphered(ClearParity(frame.key), frame.input, frame.salt, hist.count0)

\* Bit i of the two's-complement long n.
BitOfLong(n, i) == (n \div (2 ^ i)) % 2 = 1

\* C8: saltbits is the 24-bit reversal of the salt: bit 23 - i of saltbits is
\* bit i of the salt for i in 0..23, no bit above bit 23 is set, and the bits
\* of the salt above bit 23 have no influence.
C8_SaltReversed ==
    SaltIsSet =>
       /\ \A i \in 0..23 : ((23 - i) \in frame.ctx.saltbits) <=> BitOfLong(frame.salt, i)
       /\ frame.ctx.saltbits \subseteq 0..23
       /\ frame.ctx.saltbits = des_set_salt(WordOfLong(frame.salt % (2 ^ 24)))

C8_Witness ==
    /\ frame.pc = "do_des"
    /\ frame.salt = \h1000001
    /\ frame.ctx.saltbits = {23}

\* C9: subkey r is the compression permutation of the halves k0 and k1, each
\* rotated left as a 28-bit quantity by the sum of key_shifts[0..r]; the bits
\* of the rotated words above bit 27 have no influence; the sum for round 15 is
\* 28, which leaves the halves as they were.
C9_SubkeySchedule ==
    /\ Shifts(15) = 28
    /\ frame.pc = "set_salt" =>
          LET k == KeyHalves(tables, frame.key)
          IN /\ k.k0 \subseteq 0..27
             /\ k.k1 \subseteq 0..27
             /\ Rot28(k.k0, Shifts(15)) = k.k0
             /\ Rot28(k.k1, Shifts(15)) = k.k1
             /\ \A round \in 0..15 :
                   LET t0 == RotatedHalf(k.k0, Shifts(round))
                       t1 == RotatedHalf(k.k1, Shifts(round))
                       c == Rot28(k.k0, Shifts(round))
                       d == Rot28(k.k1, Shifts(round))
                   IN /\ frame.ctx.en_keysl[round] = PermutedChoice2(c, d, 0)
                      /\ frame.ctx.en_keysr[round] = PermutedChoice2(c, d, 24)
                      /\ CompSlices(t0, t1) = CompSlices(t0 \cap 0..27, t1 \cap 0..27)
                      /\ t0 \cap 0..27 = c
                      /\ t1 \cap 0..27 = d

C9_Witness ==
    /\ frame.pc = "set_salt"
    /\ frame.key # ClearParity(ZeroBlock)
    /\ KeyHalves(tables, frame.key).k0 # {}
    /\ RotatedHalf(KeyHalves(tables, frame.key).k0, Shifts(7)) \cap 28..31 # {}
    /\ frame.ctx.en_keysl[7] =
          PermutedChoice2(Rot28(KeyHalves(tables, frame.key).k0, Shifts(7)),
                          Rot28(KeyHalves(tables, frame.key).k1, Shifts(7)), 0)

\* C10: every table index the call computes lies inside its table: the key and
\* compression mask indices, the permutation byte indices, the subkey, m_sbox
\* and psbox indices of every round, and the indices of table generation, where
\* the value 255 of an unused inverse-permutation entry never indexes bits28 or
\* bits24; the subkey halves, saltbits and the salted halves fit in 24 bits.
C10_IndicesInRange ==
    /\ ~hist.oob
    /\ GenInRange
    /\ KeyIsSet =>
          \A n \in 0..15 : /\ frame.ctx.en_keysl[n] \subseteq 0..23
                           /\ frame.ctx.en_keysr[n] \subseteq 0..23
    /\ SaltIsSet => frame.ctx.saltbits \subseteq 0..23
    /\ (frame.pc = "round" /\ RoundTest(frame.round)) =>
          LET x == Salted(frame.ctx, frame.r, frame.kl, frame.kr)
          IN /\ frame.kl \in 0..15 /\ frame.kr \in 0..15
             /\ x.r48l \subseteq 0..23
             /\ x.r48r \subseteq 0..23
             /\ \A n \in 0..3 : SboxSlices(x)[n] \in 0..4095

C10_Witness ==
    /\ frame.pc = "round"
    /\ frame.round = 1
    /\ frame.kl = 15
    /\ hist.nRounds = 31
    /\ ~hist.oob
    /\ 31 \in frame.r
    /\ 0 \in frame.r

=============================================================================
